---------------------------- MODULE Spec2Model ----------------------------
(***************************************************************************)
(* Model of the JSON recovery and chart selection code of the Azure LLM    *)
(* analytics repository: JSONExtractor.extract_json,                       *)
(* ChartGenerator.auto_generate_chart and AnalyticsPipeline.run_query of   *)
(* azure_llm_analytics.py ("prod"), and AnalyticsPipeline.extract_json,    *)
(* create_chart and run_query of azure_llm_analytics_dev.py ("dev").       *)
(*                                                                         *)
(* A text is a sequence of tokens.  A token stands for a run of characters *)
(* no regular expression of the code can split: a bracket, a brace, a      *)
(* comma, a colon, one whitespace character, a code fence (three           *)
(* backquotes, written <fence>), the word json, a                          *)
(* prose word, or a JSON literal (string, number, null, true).             *)
(***************************************************************************)
EXTENDS Integers, Sequences, FiniteSets, TLC

\* ------------------------------------------------------------------ bounds
MaxSegs == 2        \* segments of a generated reply text
MaxRecords == 2     \* records of a generated record set
MaxSubmits == 2     \* submits of a run of the dashboard
MaxRuns == 2        \* concurrent runs of extraction and chart selection

\* ------------------------------------------------------------------ tokens
WS == " "
FENCE == "<fence>"
TAG == "json"
WORD == "w"
Digits == <<"1", "2", "3", "4">>
NumToks == {Digits[i] : i \in 1..Len(Digits)} \cup {"12", "20"}
\* string literals that parse as a number
NumStrToks == {"\"12\"", "\"3\"", "\"6\""}
StrToks ==
    {"\"a\"", "\"b\"", "\"c\"", "\"x\"", "\"y\"", "\"phase\"", "\"tasks\""}
        \cup NumStrToks
NullTok == "null"
BoolToks == {"true"}
ScalarToks == NumToks \cup StrToks \cup {NullTok} \cup BoolToks

\* ------------------------------------------------------------ JSON values
\* A parsed value: t is the Python type (num, str, null, bool, arr for list,
\* obj for dict), s the literal of a scalar, items the members in order
\* (k is the key of a dict member, "" for a list element).
Scalar(tok) ==
    [t |-> IF tok \in NumToks THEN "num"
           ELSE IF tok \in StrToks THEN "str"
           ELSE IF tok = NullTok THEN "null" ELSE "bool",
     s |-> tok, items |-> <<>>]
Arr(vs) == [t |-> "arr", s |-> "", items |-> [i \in 1..Len(vs) |-> [k |-> "", v |-> vs[i]]]]
Obj(kvs) == [t |-> "obj", s |-> "", items |-> kvs]
KV(key, val) == [k |-> key, v |-> val]
None == [t |-> "none", s |-> "", items |-> <<>>]

IsList(v) == v.t = "arr"
IsDict(v) == v.t = "obj"
\* Python truthiness of an Optional[list]: None and [] are falsy.
Truthy(v) == v.t = "arr" /\ Len(v.items) > 0
Elems(v) == [i \in 1..Len(v.items) |-> v.items[i].v]

\* ------------------------------------------------- json.loads (strict parse)
Tok(t, i) == IF i >= 1 /\ i <= Len(t) THEN t[i] ELSE "<eof>"

RECURSIVE SkipWs(_, _)
\* Index of the first token at or after i that is not whitespace.
SkipWs(t, i) == IF Tok(t, i) = WS THEN SkipWs(t, i + 1) ELSE i

ParseFail == [ok |-> FALSE, v |-> None, n |-> 0]

RECURSIVE PutKey(_, _, _, _)
\* dict[key] = val: a repeated key keeps its first position and takes the
\* last value.
PutKey(kvs, key, val, i) ==
    IF i > Len(kvs) THEN Append(kvs, KV(key, val))
    ELSE IF kvs[i].k = key THEN [kvs EXCEPT ![i] = KV(key, val)]
    ELSE PutKey(kvs, key, val, i + 1)

RECURSIVE ParseValue(_, _)
RECURSIVE ParseElements(_, _, _)
RECURSIVE ParseMembers(_, _, _)
\* One JSON value starting at token i (whitespace already skipped).
ParseValue(t, i) ==
    LET tok == Tok(t, i) IN
    IF tok \in ScalarToks THEN [ok |-> TRUE, v |-> Scalar(tok), n |-> i + 1]
    ELSE IF tok = "[" THEN
        LET j == SkipWs(t, i + 1) IN
        IF Tok(t, j) = "]" THEN [ok |-> TRUE, v |-> Arr(<<>>), n |-> j + 1]
        ELSE ParseElements(t, j, <<>>)
    ELSE IF tok = "{" THEN
        LET j == SkipWs(t, i + 1) IN
        IF Tok(t, j) = "}" THEN [ok |-> TRUE, v |-> Obj(<<>>), n |-> j + 1]
        ELSE ParseMembers(t, j, <<>>)
    ELSE ParseFail

ParseElements(t, i, acc) ==
    LET r == ParseValue(t, i)
        j == SkipWs(t, r.n)
        acc2 == Append(acc, KV("", r.v))
    IN  IF ~r.ok THEN ParseFail
        ELSE IF Tok(t, j) = "," THEN ParseElements(t, SkipWs(t, j + 1), acc2)
        ELSE IF Tok(t, j) = "]"
             THEN [ok |-> TRUE, v |-> [t |-> "arr", s |-> "", items |-> acc2], n |-> j + 1]
        ELSE ParseFail

ParseMembers(t, i, acc) ==
    LET key == Tok(t, i)
        j == SkipWs(t, i + 1)
        r == ParseValue(t, SkipWs(t, j + 1))
        m == SkipWs(t, r.n)
        acc2 == PutKey(acc, key, r.v, 1)
    IN  IF key \notin StrToks \/ Tok(t, j) # ":" THEN ParseFail
        ELSE IF ~r.ok THEN ParseFail
        ELSE IF Tok(t, m) = "," THEN ParseMembers(t, SkipWs(t, m + 1), acc2)
        ELSE IF Tok(t, m) = "}" THEN [ok |-> TRUE, v |-> Obj(acc2), n |-> m + 1]
        ELSE ParseFail

\* json.loads(t): ok = FALSE stands for json.JSONDecodeError.
Loads(t) ==
    LET r == ParseValue(t, SkipWs(t, 1)) IN
    IF r.ok /\ SkipWs(t, r.n) = Len(t) + 1 THEN [ok |-> TRUE, v |-> r.v]
    ELSE [ok |-> FALSE, v |-> None]

\* ------------------------------------------------------ regular expressions
\* A match: g1..g2 is the span findall returns (the group, or the whole match
\* when the pattern has no group), nxt the position the scan resumes at.
NoMatch == [ok |-> FALSE, g1 |-> 0, g2 |-> 0, nxt |-> 0]
Match(a, b, n) == [ok |-> TRUE, g1 |-> a, g2 |-> b, nxt |-> n]

RECURSIVE NextTok(_, _, _)
\* Lazy .*? followed by one literal: the first position >= i holding a token
\* of the set toks, 0 when there is none.
NextTok(t, i, toks) ==
    IF i > Len(t) THEN 0
    ELSE IF t[i] \in toks THEN i
    ELSE NextTok(t, i + 1, toks)

RECURSIVE FencedEnd(_, _, _)
\* Lazy .*? followed by close, \s* and a fence: the first position >= i of
\* a close token that only whitespace separates from a fence, 0 when none.
FencedEnd(t, i, close) ==
    IF i > Len(t) THEN 0
    ELSE IF t[i] = close /\ Tok(t, SkipWs(t, i + 1)) = FENCE THEN i
    ELSE FencedEnd(t, i + 1, close)

\* (\[.*?\]|\{.*?\})\s*<fence> with the group starting at j.
FencedBody(t, j, opens) ==
    LET open == Tok(t, j)
        close == IF open = "[" THEN "]" ELSE "}"
        e == FencedEnd(t, j + 1, close)
    IN  IF open \notin opens \/ e = 0 THEN NoMatch
        ELSE Match(j, e, SkipWs(t, e + 1) + 1)

MatchProdFenced(t, i) ==
    IF Tok(t, i) # FENCE THEN NoMatch
    ELSE FencedBody(t, SkipWs(t, IF Tok(t, i + 1) = TAG THEN i + 2 ELSE i + 1),
                    {"[", "{"})

RECURSIVE ArrRest(_, _)
RECURSIVE ArrLazy(_, _)
\* \s*(?:,\s*\{.*?\}\s*)*\] from position p: the position after the closing
\* bracket, 0 when the rest of the pattern cannot match.
ArrRest(t, p) ==
    LET q == SkipWs(t, p)
        b == SkipWs(t, q + 1)
    IN  IF Tok(t, q) = "]" THEN q + 1
        ELSE IF Tok(t, q) = "," /\ Tok(t, b) = "{" THEN ArrLazy(t, b + 1)
        ELSE 0
\* .*?\} and the rest of the pattern: the closing braces are tried from the
\* nearest one on, and the first one after which the rest matches is taken.
ArrLazy(t, e) ==
    LET c == NextTok(t, e, {"}"})
        r == ArrRest(t, c + 1)
    IN  IF c = 0 THEN 0
        ELSE IF r # 0 THEN r
        ELSE ArrLazy(t, c + 1)

MatchProdArray(t, i) ==
    LET j == SkipWs(t, i + 1)
        n == ArrLazy(t, j + 1)
    IN  IF Tok(t, i) # "[" \/ Tok(t, j) # "{" \/ n = 0 THEN NoMatch
        ELSE Match(i, n - 1, n)

RECURSIVE ObjRest(_, _)
\* (?:\{[^{}]*\}[^{}]*)*\} from the brace at p: the position of the closing
\* brace of the match, 0 when the braces nest deeper than one level.
ObjRest(t, p) ==
    LET q == NextTok(t, p + 1, {"{", "}"}) IN
    IF p = 0 THEN 0
    ELSE IF t[p] = "}" THEN p
    ELSE IF q = 0 \/ t[q] # "}" THEN 0
    ELSE ObjRest(t, NextTok(t, q + 1, {"{", "}"}))

MatchProdObject(t, i) ==
    LET e == ObjRest(t, NextTok(t, i + 1, {"{", "}"})) IN
    IF Tok(t, i) # "{" \/ e = 0 THEN NoMatch ELSE Match(i, e, e + 1)

MatchDevJsonFenced(t, i) ==
    IF Tok(t, i) # FENCE \/ Tok(t, i + 1) # TAG THEN NoMatch
    ELSE FencedBody(t, SkipWs(t, i + 2), {"["})

MatchDevFenced(t, i) ==
    IF Tok(t, i) # FENCE THEN NoMatch
    ELSE FencedBody(t, SkipWs(t, i + 1), {"["})

MatchDevSpan(t, i, open, close) ==
    LET e == NextTok(t, i + 1, {close}) IN
    IF Tok(t, i) # open \/ e = 0 THEN NoMatch ELSE Match(i, e, e + 1)

MatchAt(pat, t, i) ==
    CASE pat = "prod_fenced" -> MatchProdFenced(t, i)
      [] pat = "prod_array" -> MatchProdArray(t, i)
      [] pat = "prod_object" -> MatchProdObject(t, i)
      [] pat = "dev_json_fenced" -> MatchDevJsonFenced(t, i)
      [] pat = "dev_fenced" -> MatchDevFenced(t, i)
      [] pat = "dev_array" -> MatchDevSpan(t, i, "[", "]")
      [] pat = "dev_object" -> MatchDevSpan(t, i, "{", "}")

RECURSIVE FindAllFrom(_, _, _, _)
\* re.findall: the non-overlapping matches, scanning from left to right.
FindAllFrom(pat, t, i, acc) ==
    LET m == MatchAt(pat, t, i) IN
    IF i > Len(t) THEN acc
    ELSE IF m.ok THEN FindAllFrom(pat, t, m.nxt, Append(acc, SubSeq(t, m.g1, m.g2)))
    ELSE FindAllFrom(pat, t, i + 1, acc)

FindAll(pat, t) == FindAllFrom(pat, t, 1, <<>>)

\* ------------------------------------------------------------ extract_json
RECURSIVE FirstAccepted(_, _, _)
\* The loop over the matches of one pattern: the first match that parses to
\* a type the branch returns (a dict is wrapped in a list); None when the
\* loop ends without a return.
FirstAccepted(cands, i, types) ==
    LET p == Loads(cands[i]) IN
    IF i > Len(cands) THEN None
    ELSE IF p.ok /\ IsList(p.v) /\ "arr" \in types THEN p.v
    ELSE IF p.ok /\ IsDict(p.v) /\ "obj" \in types THEN Arr(<<p.v>>)
    ELSE FirstAccepted(cands, i + 1, types)

RECURSIVE FirstPattern(_, _, _)
\* The strategies in order: pats[i] is the pattern, types[i] the parsed
\* types its loop returns.
FirstPattern(pats, t, i) ==
    LET r == FirstAccepted(FindAll(pats[i].pat, t), 1, pats[i].types) IN
    IF i > Len(pats) THEN None
    ELSE IF r # None THEN r
    ELSE FirstPattern(pats, t, i + 1)

ProdPatterns ==
    << [pat |-> "prod_fenced", types |-> {"arr", "obj"}],
       [pat |-> "prod_array", types |-> {"arr"}],
       [pat |-> "prod_object", types |-> {"obj"}] >>

DevPatterns ==
    << [pat |-> "dev_json_fenced", types |-> {"arr", "obj"}],
       [pat |-> "dev_fenced", types |-> {"arr", "obj"}],
       [pat |-> "dev_array", types |-> {"arr", "obj"}],
       [pat |-> "dev_object", types |-> {"arr", "obj"}] >>

\* JSONExtractor.extract_json
ExtractJsonProd(text) ==
    LET d == Loads(text) IN
    IF Len(text) = 0 THEN None
    ELSE IF d.ok /\ IsList(d.v) THEN d.v
    ELSE IF d.ok /\ IsDict(d.v) THEN Arr(<<d.v>>)
    ELSE FirstPattern(ProdPatterns, text, 1)

\* AnalyticsPipeline.extract_json of the dev module
ExtractJsonDev(text) == FirstPattern(DevPatterns, text, 1)

\* ------------------------------------------------------ texts of the model
RECURSIVE Render(_, _)
RECURSIVE RenderItems(_, _, _, _)
\* The JSON text of a value; sp adds a whitespace after each comma and colon.
Render(v, sp) ==
    IF v.t = "arr" THEN <<"[">> \o RenderItems(v.items, 1, FALSE, sp) \o <<"]">>
    ELSE IF v.t = "obj" THEN <<"{">> \o RenderItems(v.items, 1, TRUE, sp) \o <<"}">>
    ELSE <<v.s>>
RenderItems(items, i, keyed, sp) ==
    LET gap == IF sp THEN <<WS>> ELSE <<>>
        head == (IF keyed THEN <<items[i].k, ":">> \o gap ELSE <<>>)
                \o Render(items[i].v, sp)
    IN  IF i > Len(items) THEN <<>>
        ELSE IF i = Len(items) THEN head
        ELSE head \o <<",">> \o gap \o RenderItems(items, i + 1, keyed, sp)

A == "\"a\""
B == "\"b\""
C == "\"c\""
Num(i) == Scalar(Digits[i])
Str(tok) == Scalar(tok)

\* The i-th record of a generated array, by the shape of its values.
Rec(shape, i) ==
    CASE shape = "flat" -> Obj(<<KV(A, Str("\"x\"")), KV(B, Num(i))>>)
      [] shape = "arrnum" -> Obj(<<KV(A, Arr(<<Num(i)>>))>>)
      [] shape = "objnest" -> Obj(<<KV(A, Obj(<<KV(C, Num(i))>>))>>)
      [] shape = "arrobj" -> Obj(<<KV(A, Arr(<<Obj(<<KV(C, Num(i))>>)>>))>>)
ArrayOf(shape, n) == Arr([i \in 1..n |-> Rec(shape, i)])
Shapes == {"flat", "arrnum", "objnest", "arrobj"}
\* A generated array holds one record or two.
ArraySizes == {1, 2}

FencedRec == Obj(<<KV(A, Str("\"y\"")), KV(B, Num(3))>>)
FlatObj == Obj(<<KV(A, Str("\"y\"")), KV(B, Num(2))>>)
Phase == "\"phase\""
Tasks == "\"tasks\""
\* The records of a reply with a phase written as a string and a count.
PhaseRecords ==
    Arr(<< Obj(<<KV(Phase, Str("\"3\"")), KV(Tasks, Scalar("12"))>>),
           Obj(<<KV(Phase, Str("\"6\"")), KV(Tasks, Scalar("20"))>>) >>)
\* An array whose second object lacks a field of the first.
RaggedRecords == Arr(<<Rec("flat", 1), Obj(<<KV(A, Str("\"y\""))>>)>>)
Fenced(tagged, body) ==
    (IF tagged THEN <<FENCE, TAG, WS>> ELSE <<FENCE, WS>>) \o body \o <<WS, FENCE>>

\* A segment of a reply text: toks(sp) is its text, val the JSON value it
\* holds when it holds a well-formed one, flat whether no value is nested.
Seg(kind, id, val, flat) == [kind |-> kind, id |-> id, val |-> val, flat |-> flat]
ArraySegs ==
    {Seg("array", <<shape, n>>, ArrayOf(shape, n), shape = "flat") :
        shape \in Shapes, n \in ArraySizes}
ObjectSegs ==
    { Seg("object", <<"flat", 0>>, FlatObj, TRUE),
      Seg("object", <<"nest1", 0>>, Rec("objnest", 1), FALSE),
      Seg("object", <<"nest2", 0>>, Obj(<<KV(A, Rec("objnest", 1))>>), FALSE),
      Seg("object", <<"arrobj", 0>>, Rec("arrobj", 1), FALSE) }
FencedSegs ==
    { Seg("fenced", <<"tagged", 0>>, Arr(<<FencedRec>>), TRUE),
      Seg("fenced", <<"plain", 0>>, Arr(<<FencedRec>>), TRUE),
      Seg("fenced", <<"tagged", 1>>, FencedRec, TRUE),
      Seg("fenced", <<"plain", 1>>, FencedRec, TRUE),
      Seg("fenced", <<"tagged", 2>>, PhaseRecords, TRUE) }
OtherSegs ==
    { Seg("prose", <<"word", 0>>, None, TRUE),
      Seg("junk", <<"braces", 0>>, None, TRUE),
      Seg("junk", <<"brackets", 0>>, None, TRUE),
      Seg("fenced_bad", <<"braces", 0>>, None, TRUE),
      Seg("fenced_bad", <<"word", 0>>, None, TRUE),
      Seg("malformed", <<"nocomma", 0>>, None, TRUE),
      Seg("malformed", <<"trailing", 0>>, None, TRUE),
      Seg("malformed", <<"truncated", 0>>, None, TRUE),
      Seg("empty", <<"arr", 0>>, Arr(<<>>), TRUE),
      Seg("empty", <<"obj", 0>>, Obj(<<>>), TRUE),
      Seg("ragged", <<"keys", 0>>, RaggedRecords, TRUE),
      Seg("scalars", <<"nums", 0>>, Arr(<<Num(1), Num(2)>>), TRUE),
      Seg("scalars", <<"rows", 0>>, Arr(<<Arr(<<Num(1), Str("\"x\"")>>)>>), FALSE) }
Segments == ArraySegs \cup ObjectSegs \cup FencedSegs \cup OtherSegs

SegToks(g, sp) ==
    CASE g.kind \in {"array", "object", "empty", "scalars", "ragged"} -> Render(g.val, sp)
      [] g.kind = "fenced" -> Fenced(g.id[1] = "tagged", Render(g.val, sp))
      [] g.kind = "prose" -> <<WORD>>
      [] g.kind = "junk" /\ g.id[1] = "braces" -> <<"{", WORD, "}">>
      [] g.kind = "junk" /\ g.id[1] = "brackets" -> <<"[", WORD, "]">>
      [] g.kind = "fenced_bad" /\ g.id[1] = "braces" -> Fenced(TRUE, <<"{", WORD, "}">>)
      [] g.kind = "fenced_bad" /\ g.id[1] = "word" -> Fenced(FALSE, <<WORD>>)
      [] g.kind = "malformed" /\ g.id[1] = "nocomma" ->
            <<"[">> \o Render(Rec("flat", 1), sp) \o Render(Rec("flat", 2), sp) \o <<"]">>
      [] g.kind = "malformed" /\ g.id[1] = "trailing" ->
            <<"[">> \o Render(Rec("flat", 1), sp) \o <<",", "]">>
      [] g.kind = "malformed" /\ g.id[1] = "truncated" ->
            <<"[">> \o Render(Rec("flat", 1), sp)

RECURSIVE DocToks(_, _, _)
\* The text of a document: its segments, one whitespace between two.
DocToks(doc, i, sp) ==
    IF i > Len(doc) THEN <<>>
    ELSE IF i = Len(doc) THEN SegToks(doc[i], sp)
    ELSE SegToks(doc[i], sp) \o <<WS>> \o DocToks(doc, i + 1, sp)

SeqsUpTo(S, n) == UNION {[1..k -> S] : k \in 0..n}
Docs == SeqsUpTo(Segments, MaxSegs)

\* ------------------------------------------------------- pandas DataFrame
NaN == [t |-> "nan", s |-> "", items |-> <<>>]

RECURSIVE AddKeys(_, _, _)
AddKeys(cols, items, i) ==
    IF i > Len(items) THEN cols
    ELSE AddKeys(IF \E j \in 1..Len(cols) : cols[j] = items[i].k
                 THEN cols ELSE Append(cols, items[i].k), items, i + 1)
RECURSIVE KeyColumns(_, _, _)
\* The columns of a frame built from a list of dicts: the keys in the order
\* of their first appearance.
KeyColumns(rows, i, cols) ==
    IF i > Len(rows) THEN cols
    ELSE KeyColumns(rows, i + 1, AddKeys(cols, rows[i].items, 1))

Max(S) == CHOOSE x \in S : \A y \in S : y <= x
\* The name of the positional column i - 1: an integer, not a str.
PosNames == <<"#0", "#1", "#2", "#3">>
PosName(i) == PosNames[i]
IsStrName(c) == c \in StrToks
\* pd.DataFrame(data).columns for a non-empty list: the kind of the frame
\* follows the first element (dicts, rows, or scalars in a single column).
Columns(data) ==
    LET rows == Elems(data) IN
    IF rows[1].t = "obj" THEN KeyColumns(rows, 1, <<>>)
    ELSE IF rows[1].t = "arr"
         THEN [i \in 1..Max({Len(rows[r].items) : r \in 1..Len(rows)}) |-> PosName(i)]
    ELSE <<PosName(1)>>

ColIndex(cols, c) == CHOOSE i \in 1..Len(cols) : cols[i] = c
\* The cell of row r in column c; NaN where the row has no such key.
Cell(data, cols, r, c) ==
    LET row == data.items[r].v
        hit == {j \in 1..Len(row.items) : row.items[j].k = c}
        i == ColIndex(cols, c)
    IN  IF row.t = "obj"
        THEN IF hit = {} THEN NaN ELSE row.items[CHOOSE j \in hit : TRUE].v
        ELSE IF row.t = "arr"
             THEN IF i <= Len(row.items) THEN row.items[i].v ELSE NaN
        ELSE row
ColCells(data, cols, c) == [r \in 1..Len(data.items) |-> Cell(data, cols, r, c)]

\* A dtype inference that takes a column for numbers as soon as it holds one.
DtypeAnyNumber(cells) ==
    LET ts == {cells[r].t : r \in 1..Len(cells)} IN
    IF ts = {"bool"} THEN "bool"
    ELSE IF "num" \in ts THEN "number"
    ELSE "object"
\* The inferred dtype of a column: None and NaN are both missing in a
\* column of numbers, a column of None alone stays object.
Dtype(cells) ==
    LET ts == {cells[r].t : r \in 1..Len(cells)} IN
    IF ts = {"bool"} THEN "bool"
    ELSE IF ts \subseteq {"num", "nan", "null"} /\ ts # {"null"} THEN "number"
    ELSE "object"

\* select_dtypes(include=[dtype]).columns.tolist()
SelectDtypes(data, cols, dtype) ==
    SelectSeq(cols, LAMBDA c : Dtype(ColCells(data, cols, c)) = dtype)

\* pd.to_numeric(column) does not raise.
ToNumericOk(cells) ==
    \A r \in 1..Len(cells) :
        \/ cells[r].t \in {"num", "nan", "null", "bool"}
        \/ cells[r].t = "str" /\ cells[r].s \in NumStrToks

\* The two lists the chart code reads off the frame:
\* categorical_cols / text_cols and numeric_cols.
NoRoles == [categorical |-> <<>>, numeric |-> <<>>]
SelectRoles(data) ==
    [categorical |-> SelectDtypes(data, Columns(data), "object"),
     numeric |-> SelectDtypes(data, Columns(data), "number")]
\* auto_generate_chart returns before the selection when the list is empty
\* or the frame has fewer than two columns.
ProdRoles(data) ==
    IF ~Truthy(data) THEN NoRoles
    ELSE IF Len(Columns(data)) < 2 THEN NoRoles
    ELSE SelectRoles(data)
\* create_chart returns before the selection when the list is empty.
DevRoles(data) == IF ~Truthy(data) THEN NoRoles ELSE SelectRoles(data)

\* ----------------------------------------------------------------- charts
NoChart == [kind |-> "none", cat |-> "", val |-> ""]
Chart(kind, cat, val) == [kind |-> kind, cat |-> cat, val |-> val]
Returned(c) == [raised |-> FALSE, chart |-> c]
Raised == [raised |-> TRUE, chart |-> NoChart]
DevAutoThreshold == 5

\* create_bar_chart, create_pie_chart, px.bar, px.pie: the title is built
\* with str methods of the column names, which an integer name lacks.  The
\* figure constructors are taken to accept every cell value.
Figure(kind, cat, val) ==
    IF IsStrName(cat) /\ IsStrName(val) THEN Returned(Chart(kind, cat, val))
    ELSE Raised

\* ChartGenerator.auto_generate_chart
AutoGenerateChart(data, mode) ==
    LET cols == Columns(data)
        objs == SelectDtypes(data, cols, "object")
        nums == SelectDtypes(data, cols, "number")
        guess == objs = <<>> \/ nums = <<>>
        ok == ToNumericOk(ColCells(data, cols, cols[2]))
        cat == IF guess THEN cols[1] ELSE objs[1]
        num == IF guess THEN cols[2] ELSE nums[1]
        kind == IF mode = "auto" THEN "bar" ELSE mode
    IN  IF ~Truthy(data) THEN Returned(NoChart)
        ELSE IF Len(cols) < 2 THEN Returned(NoChart)
        ELSE IF guess /\ ~ok THEN Returned(NoChart)
        ELSE IF kind \in {"bar", "pie"} THEN Figure(kind, cat, num)
        ELSE Returned(NoChart)

\* AnalyticsPipeline.create_chart of the dev module
CreateChart(data, mode) ==
    LET cols == Columns(data)
        text == SelectDtypes(data, cols, "object")
        nums == SelectDtypes(data, cols, "number")
        kind == IF mode = "auto"
                THEN IF Len(data.items) <= DevAutoThreshold THEN "pie" ELSE "bar"
                ELSE IF mode = "pie" THEN "pie" ELSE "bar"
        fig == Figure(kind, text[1], nums[1])
    IN  IF ~Truthy(data) THEN Returned(NoChart)
        ELSE IF text = <<>> \/ nums = <<>> THEN Returned(NoChart)
        ELSE IF fig.raised THEN Returned(NoChart)
        ELSE fig

\* -------------------------------------------------------------- run_query
\* The value AzureLLMClient.query returns: on success the raw text of the
\* answer and the texts of the fields of the answer that
\* extract_from_response looks at, in the order of possible_fields.
Failure(msg) == [success |-> FALSE, error |-> msg, raw_text |-> <<>>, fields |-> <<>>]
Success(raw, fields) == [success |-> TRUE, error |-> "", raw_text |-> raw, fields |-> fields]

RECURSIVE ExtractFromFields(_, _)
ExtractFromFields(response, i) ==
    LET e == ExtractJsonProd(response.fields[i]) IN
    IF i > Len(response.fields) THEN ExtractJsonProd(response.raw_text)
    ELSE IF Truthy(e) THEN e
    ELSE ExtractFromFields(response, i + 1)
\* JSONExtractor.extract_from_response
ExtractFromResponse(response) ==
    IF ~response.success THEN None ELSE ExtractFromFields(response, 1)

\* What run_query hands to its caller: returned says which dict it is (the
\* response of the gateway or the result built), raised that an exception
\* left the call instead; steps lists the stages that ran.  A key the dict
\* does not hold reads as .get reads it.
ResponseDict(response) ==
    [returned |-> "response", success |-> response.success, error |-> response.error,
     extracted_data |-> None, chart |-> NoChart, chart_error |-> FALSE,
     raised |-> FALSE, steps |-> <<"query">>]
ResultDict(data, c, chart_error, raised, steps) ==
    [returned |-> "result", success |-> TRUE, error |-> "",
     extracted_data |-> data, chart |-> c, chart_error |-> chart_error,
     raised |-> raised, steps |-> steps]

\* A chart call that lets its exception through.
TryChartUnguarded(data, c) ==
    ResultDict(data, c.chart, FALSE, c.raised, <<"query", "extract", "chart">>)
\* try: chart = ...; result['chart'] = chart
\* except Exception as e: result['chart_error'] = str(e)
TryChart(data, c) ==
    ResultDict(data, c.chart, c.raised, FALSE, <<"query", "extract", "chart">>)

\* A pipeline that goes on after a failed gateway call.
PipelineNoEarlyReturn(response, data, c) ==
    IF ~Truthy(data)
    THEN ResultDict(data, NoChart, FALSE, FALSE, <<"query", "extract">>)
    ELSE TryChart(data, c)
\* The body of run_query, the same in both modules: data is what the
\* extraction returns and c what the chart call does, when they run.
Pipeline(response, data, c) ==
    IF ~response.success THEN ResponseDict(response)
    ELSE IF ~Truthy(data)
    THEN ResultDict(data, NoChart, FALSE, FALSE, <<"query", "extract">>)
    ELSE TryChart(data, c)

\* AnalyticsPipeline.run_query of azure_llm_analytics.py; data is what
\* self.extractor.extract_from_response(response) returns.
RunQueryProdResult(response, data, mode) ==
    Pipeline(response, data, AutoGenerateChart(data, mode))

\* AnalyticsPipeline.run_query of azure_llm_analytics_dev.py; data is what
\* self.extract_json(response['raw_text']) returns.
RunQueryDevResult(response, data, mode) ==
    Pipeline(response, data, CreateChart(data, mode))

\* has_data of the chat entry the submit handler of the dashboard builds
HasData(result) == result.extracted_data # None

\* ------------------------------------------------------ inputs of the calls
Modes == {"auto", "bar", "pie", "line"}
Fields == <<A, B>>
\* A cell of a generated record: a number, a string, a string holding a
\* number, null, true, or no key at all.
CellValues == {Num(1), Str("\"x\""), Str("\"12\""), Scalar(NullTok), Scalar("true"), NaN}
RowOf(f) ==
    Obj([i \in 1..Len(SelectSeq(Fields, LAMBDA k : f[k] # NaN)) |->
            LET k == SelectSeq(Fields, LAMBDA x : f[x] # NaN)[i] IN KV(k, f[k])])
Rows == {RowOf(f) : f \in [{A, B} -> CellValues]}
DataSets == {None, Arr(<<>>)} \cup {Arr(rs) : rs \in UNION {[1..n -> Rows] : n \in 1..MaxRecords}}

FieldTexts == { <<>>, << <<"[", "]">> >>, << Render(Arr(<<FencedRec>>), FALSE) >> }
\* The segments of an answer: none, one, or a word of prose and one.
ReplyDocs ==
    SeqsUpTo(Segments, 1)
        \cup {<<Seg("prose", <<"word", 0>>, None, TRUE), g>> : g \in Segments}
\* The outcomes of the gateway call: a failure, or an answer whose raw text
\* is written from the segments doc; the answers of at most one segment
\* also come with an output field.
Outcomes ==
    {[doc |-> <<>>, reply |-> Failure(msg)] : msg \in {"HTTP Error 500", "Connection Error"}}
      \cup {[doc |-> d, reply |-> Success(DocToks(d, 1, TRUE), <<>>)] : d \in ReplyDocs}
      \cup {[doc |-> d, reply |-> Success(DocToks(d, 1, TRUE), fs)] :
                d \in SeqsUpTo(Segments, 1), fs \in FieldTexts}

\* ------------------------------------------------------------------- state
VARIABLES
    kind,       \* what the call is given: "text", "data" or "gateway"
    doc,        \* the segments the input text or the answer was written from
    text,       \* the input text of extract_json
    data,       \* the input records of the chart call
    reply,      \* what the gateway answers to run_query
    op,         \* the call made: idle before it, then its name
    impl,       \* "prod" (azure_llm_analytics) or "dev" (azure_llm_analytics_dev)
    mode,       \* the requested chart type
    extracted,  \* what extract_json returned
    chart,      \* what the chart call returned or raised
    roles,      \* the categorical and numeric columns the chart call selected
    result      \* what run_query returned

\* The state of the dashboard (streamlit_dashboard.py) and of its files.
VARIABLES
    chat_history,   \* st.session_state.chat_history; while in_session is
                    \* FALSE, what it was in the session the refresh ended
    in_session,     \* 'chat_history' in st.session_state
    history_file,   \* chat_history.json: whether it exists, and its entries
    query_log,      \* query_log.txt: the entries written, oldest first
    clock,          \* datetime.now(), counted in submits
    saved,          \* the list handed to the last save_history call
    returned        \* what the last call of load_history, save_history or
                    \* clear_history returned

\* The runs of concurrent callers of one module.
VARIABLES
    runs            \* per run: its text and mode, where it is, what it has

corevars == <<kind, doc, text, data, reply, op, impl, mode, extracted, chart, roles, result>>
dashvars == <<chat_history, in_session, history_file, query_log, clock, saved, returned>>
vars == <<kind, doc, text, data, reply, op, impl, mode, extracted, chart, roles, result,
          chat_history, in_session, history_file, query_log, clock, saved, returned,
          runs>>
\* The history file: whether it exists, what its text is (form: a JSON
\* array "list", a JSON object "dict", a JSON string "str", a number "num",
\* null, or "garbage" that is no JSON), and what iterating the decoded
\* value gives (the elements of the array, the keys of the object, the
\* characters of the string).
NoFile == [exists |-> FALSE, form |-> "none", entries |-> <<>>]
\* No call of the persistence layer was made.
NoReturn == [raised |-> FALSE, value |-> <<>>]

NoReply == Failure("")
NoResult == [ResponseDict(NoReply) EXCEPT !.returned = "none", !.steps = <<>>]

\* Before a call: nothing returned yet, no dashboard, no concurrent runs.
Idle ==
    /\ op = "idle" /\ impl = "" /\ mode = "" /\ extracted = None
    /\ chart = Returned(NoChart) /\ roles = NoRoles /\ result = NoResult
    /\ chat_history = <<>> /\ in_session = FALSE /\ history_file = NoFile
    /\ query_log = <<>> /\ clock = 0 /\ saved = <<>> /\ runs = <<>>
    /\ returned = NoReturn

\* The inputs of the calls on texts: a text for extract_json, or an outcome
\* of the gateway call for run_query.
Init ==
    /\ Idle
    /\ \/ /\ kind = "text" /\ data = None /\ reply = NoReply
          /\ \E d \in Docs, sp \in BOOLEAN : doc = d /\ text = DocToks(d, 1, sp)
       \/ /\ kind = "gateway" /\ text = <<>> /\ data = None
          /\ \E o \in Outcomes : doc = o.doc /\ reply = o.reply

\* The inputs of the chart calls: a record list.
ChartInit ==
    /\ Idle
    /\ kind = "data" /\ doc = <<>> /\ text = <<>> /\ reply = NoReply
    /\ data \in DataSets

\* JSONExtractor.extract_json(text)
CallExtractJsonProd ==
    /\ op = "idle" /\ kind = "text"
    /\ op' = "extract_json" /\ impl' = "prod"
    /\ extracted' = ExtractJsonProd(text)
    /\ UNCHANGED <<kind, doc, text, data, reply, mode, chart, roles, result>>
    /\ UNCHANGED <<dashvars, runs>>

\* AnalyticsPipeline.extract_json(text) of the dev module
CallExtractJsonDev ==
    /\ op = "idle" /\ kind = "text"
    /\ op' = "extract_json" /\ impl' = "dev"
    /\ extracted' = ExtractJsonDev(text)
    /\ UNCHANGED <<kind, doc, text, data, reply, mode, chart, roles, result>>
    /\ UNCHANGED <<dashvars, runs>>

\* ChartGenerator.auto_generate_chart(data, chart_type)
CallAutoGenerateChart ==
    /\ op = "idle" /\ kind = "data"
    /\ \E m \in Modes :
        /\ op' = "chart" /\ impl' = "prod" /\ mode' = m
        /\ chart' = AutoGenerateChart(data, m)
        /\ roles' = ProdRoles(data)
        /\ UNCHANGED <<kind, doc, text, data, reply, extracted, result>>
        /\ UNCHANGED <<dashvars, runs>>

\* AnalyticsPipeline.create_chart(data, chart_type) of the dev module
CallCreateChart ==
    /\ op = "idle" /\ kind = "data"
    /\ \E m \in Modes :
        /\ op' = "chart" /\ impl' = "dev" /\ mode' = m
        /\ chart' = CreateChart(data, m)
        /\ roles' = DevRoles(data)
        /\ UNCHANGED <<kind, doc, text, data, reply, extracted, result>>
        /\ UNCHANGED <<dashvars, runs>>

\* AnalyticsPipeline.run_query(prompt, chart_type=mode) of azure_llm_analytics
RunQueryProd ==
    /\ op = "idle" /\ kind = "gateway"
    /\ \E ex \in {ExtractFromResponse(reply)} : \E m \in Modes :
        /\ op' = "run_query" /\ impl' = "prod" /\ mode' = m
        /\ result' = RunQueryProdResult(reply, ex, m)
        /\ UNCHANGED <<kind, doc, text, data, reply, extracted, chart, roles>>
        /\ UNCHANGED <<dashvars, runs>>

\* AnalyticsPipeline.run_query(prompt, chart_type=mode) of the dev module
RunQueryDev ==
    /\ op = "idle" /\ kind = "gateway"
    /\ \E ex \in {ExtractJsonDev(reply.raw_text)} : \E m \in Modes :
        /\ op' = "run_query" /\ impl' = "dev" /\ mode' = m
        /\ result' = RunQueryDevResult(reply, ex, m)
        /\ UNCHANGED <<kind, doc, text, data, reply, extracted, chart, roles>>
        /\ UNCHANGED <<dashvars, runs>>

Next ==
    \/ CallExtractJsonProd
    \/ CallExtractJsonDev
    \/ RunQueryProd
    \/ RunQueryDev

Spec == Init /\ [][Next]_vars

ChartNext ==
    \/ CallAutoGenerateChart
    \/ CallCreateChart

ChartSpec == ChartInit /\ [][ChartNext]_vars

\* ------------------------------------------------- what a document holds
Kinds(d) == {d[i].kind : i \in 1..Len(d)}
Holds(d, k) == {i \in 1..Len(d) : d[i].kind = k}
First(d, k) == d[CHOOSE i \in Holds(d, k) : \A j \in Holds(d, k) : i <= j]
\* A list as it is; a single object as a list of one record.
AsRecords(v) == IF v.t = "obj" THEN Arr(<<v>>) ELSE v
\* Prose: words, and brace or bracket pairs that hold no JSON.
ProseKinds == {"prose", "junk"}
AllFlat(d) == \A i \in 1..Len(d) : d[i].flat

\* The text holds exactly one well-formed array of uniform objects, and
\* prose around it.
OneArrayInProse ==
    /\ Cardinality(Holds(doc, "array")) = 1
    /\ Kinds(doc) \subseteq {"array"} \cup ProseKinds

\* C1: extract_json returns, for a text that holds exactly one well-formed
\* JSON array of uniform objects (nested values allowed) and prose around
\* it, that array, element for element and in source order.
C1_ReturnsTheArray ==
    (op = "extract_json" /\ OneArrayInProse) => extracted = First(doc, "array").val

\* The candidate that wins in a text of prose, fenced blocks, bare arrays
\* and bare objects of flat values: the whole text when it is JSON, else the
\* first fenced block, else the first bare array, else the first bare object.
CandidateKinds == {"array", "object", "fenced"}
PriorityChoice(d) ==
    IF Len(d) = 1 /\ d[1].kind \in {"array", "object"} THEN AsRecords(d[1].val)
    ELSE IF Holds(d, "fenced") # {} THEN AsRecords(First(d, "fenced").val)
    ELSE IF Holds(d, "array") # {} THEN First(d, "array").val
    ELSE IF Holds(d, "object") # {} THEN AsRecords(First(d, "object").val)
    ELSE None

\* C2: of the candidates of a text that parse, extract_json returns the one
\* of the strategy of highest priority (direct, fenced block, bare array,
\* bare object) and, within a strategy, the first one in the text.
C2_PriorityOrder ==
    (/\ op = "extract_json"
     /\ AllFlat(doc)
     /\ Kinds(doc) \subseteq CandidateKinds \cup ProseKinds \cup {"fenced_bad"})
        => extracted = PriorityChoice(doc)

\* C3: extract_json returns None or a non-empty record list; an empty array
\* or an empty object is never what it returns.
C3_NoneOrNonEmpty ==
    op = "extract_json" =>
        \/ extracted = None
        \/ /\ IsList(extracted) /\ Len(extracted.items) > 0
           /\ extracted # Arr(<<Obj(<<>>)>>)

\* C4: every element of a list extract_json returns is a mapping.
C4_ElementsAreMappings ==
    op = "extract_json" =>
        \A i \in 1..Len(extracted.items) : IsDict(extracted.items[i].v)

NoDataOutcome(r) == r.extracted_data = None /\ r.chart = NoChart
DataOnlyOutcome(r) == Truthy(r.extracted_data) /\ r.chart = NoChart
DataAndChartOutcome(r) == Truthy(r.extracted_data) /\ r.chart # NoChart

\* C6: after an answer of the gateway the result of run_query is no data,
\* data without a chart, or data with a chart; there is no chart without
\* data, and has_data of the chat entry is true in the two data outcomes
\* only.
C6_ThreeOutcomes ==
    (op = "run_query" /\ reply.success) =>
        /\ NoDataOutcome(result) \/ DataOnlyOutcome(result) \/ DataAndChartOutcome(result)
        /\ result.chart # NoChart => Truthy(result.extracted_data)
        /\ HasData(result) <=> (DataOnlyOutcome(result) \/ DataAndChartOutcome(result))

\* C7: run_query returns success = False exactly when the gateway call
\* failed, and then returns what the gateway returned, with no extraction
\* and no chart call; an answer with no JSON to recover gives success = True
\* with extracted_data = None.
C7_FailureIsNotNoData ==
    op = "run_query" =>
        /\ result.success <=> reply.success
        /\ ~reply.success =>
            /\ result.returned = "response" /\ result.error = reply.error
            /\ result.steps = <<"query">>
            /\ result.extracted_data = None /\ result.chart = NoChart
        /\ (reply.success /\ reply.fields = <<>> /\ Kinds(doc) \subseteq ProseKinds)
            => result.success /\ result.extracted_data = None
\* The gateway call of a run failed.
C7_Witness ==
    op = "run_query" /\ ~reply.success /\ ~result.success /\ result.error # ""

\* ------------------------------------------- the roles of the fields
\* The fields of a record list in original key order, and the values the
\* records hold for one of them.
FieldsOf(ds) == KeyColumns(Elems(ds), 1, <<>>)
ValuesOf(ds, f) ==
    UNION {{row.items[j].v : j \in {i \in 1..Len(row.items) : row.items[i].k = f}} :
            row \in {Elems(ds)[r] : r \in 1..Len(ds.items)}}
IsNumber(v) == v.t = "num" \/ (v.t = "str" /\ v.s \in NumStrToks)
\* Numeric: every value present is a number or a string that parses as one.
NumericField(ds, f) == \A v \in ValuesOf(ds, f) : IsNumber(v)
CategoricalField(ds, f) == ~NumericField(ds, f)
NumericFields(ds) == SelectSeq(FieldsOf(ds), LAMBDA f : NumericField(ds, f))
CategoricalFields(ds) == SelectSeq(FieldsOf(ds), LAMBDA f : CategoricalField(ds, f))
\* Record lists whose values are numbers and strings that hold no number,
\* in every record for every field.
PlainData(ds) ==
    /\ Truthy(ds)
    /\ \A r \in 1..Len(ds.items) :
        /\ Len(Elems(ds)[r].items) = Len(Fields)
        /\ \A j \in 1..Len(Fields) :
            LET v == Elems(ds)[r].items[j].v IN
            v.t = "num" \/ (v.t = "str" /\ v.s \notin NumStrToks)
DrawsChart(m) == m \in {"auto", "bar", "pie"}

\* C8: chart selection treats a field as numeric if and only if every value
\* present for it is a number or a string that parses as a number, and
\* every other field as categorical: the value field of a chart is such a
\* numeric field, its category field is not, and a record list with a field
\* of each role gets a chart.
C8_NumericIffAllNumbers ==
    (op = "chart" /\ Truthy(data)) =>
        /\ chart.chart # NoChart =>
            /\ NumericField(data, chart.chart.val)
            /\ CategoricalField(data, chart.chart.cat)
        /\ (/\ DrawsChart(mode)
            /\ NumericFields(data) # <<>> /\ CategoricalFields(data) # <<>>)
                => chart.chart # NoChart

\* C9: with no categorical field or no numeric field there is no chart; the
\* roles are not guessed from the position of the columns.
C9_NotChartable ==
    (/\ op = "chart" /\ PlainData(data)
     /\ (NumericFields(data) = <<>> \/ CategoricalFields(data) = <<>>))
        => chart = Returned(NoChart)

\* C10: the category field of a chart is the first categorical field in
\* original key order, its value field the first numeric field in original
\* key order other than the category field.
C10_FirstOfEachRole ==
    (op = "chart" /\ PlainData(data) /\ chart.chart # NoChart) =>
        /\ CategoricalFields(data) # <<>> /\ NumericFields(data) # <<>>
        /\ chart.chart.cat = CategoricalFields(data)[1]
        /\ chart.chart.val = NumericFields(data)[1]

\* A record list with a field of each role.
BothRoles(ds) == NumericFields(ds) # <<>> /\ CategoricalFields(ds) # <<>>

\* C11: with a categorical and a numeric field, mode bar gives a bar chart,
\* mode pie a pie chart, and mode auto a bar chart for every record count.
C11_KindByMode ==
    (op = "chart" /\ PlainData(data) /\ BothRoles(data) /\ DrawsChart(mode)) =>
        chart.chart.kind = (IF mode = "pie" THEN "pie" ELSE "bar")

\* The reply "The results are: <fence>json [{"phase": "3", "tasks": 12},
\* {"phase": "6", "tasks": 20}] <fence>": prose, then the tagged block.
ScenarioA ==
    << Seg("prose", <<"word", 0>>, None, TRUE),
       Seg("fenced", <<"tagged", 2>>, PhaseRecords, TRUE) >>

\* C12: for the reply of scenario A and mode auto, run_query recovers the two
\* records and produces a bar chart with category field phase and value
\* field tasks.
C12_ScenarioA ==
    (/\ op = "run_query" /\ reply.success /\ reply.fields = <<>>
     /\ doc = ScenarioA /\ mode = "auto")
        => /\ result.extracted_data = PhaseRecords
           /\ Len(result.extracted_data.items) = 2
           /\ result.chart = Chart("bar", Phase, Tasks)

\* The text holds two independent bracket-delimited arrays of objects: the
\* first malformed (a missing comma between two objects, or a comma before
\* the closing bracket), the second well-formed.
TwoArraysFirstMalformed ==
    /\ Len(doc) = 2
    /\ doc[1].kind = "malformed" /\ doc[1].id[1] \in {"nocomma", "trailing"}
    /\ doc[2].kind = "array" /\ doc[2].flat

\* C13: for a text of two independent arrays of objects, the first
\* malformed and the second well-formed, extract_json skips the first and
\* returns exactly the records of the second.
C13_ScenarioD ==
    (op = "extract_json" /\ TwoArraysFirstMalformed) => extracted = doc[2].val

\* The text holds one JSON object whose values are scalars or objects
\* nested in objects, and prose words around it.
OneObjectInProse ==
    /\ Cardinality(Holds(doc, "object")) = 1
    /\ Kinds(doc) \subseteq {"object", "prose"}
    /\ First(doc, "object").id[1] \in {"flat", "nest1", "nest2"}

\* C14: for a text of prose around a single JSON object that nests objects
\* to any depth, extract_json returns one record, equal to the whole outer
\* object, never a fragment or an inner object.
C14_WholeObject ==
    (op = "extract_json" /\ OneObjectInProse) =>
        extracted = Arr(<<First(doc, "object").val>>)

\* The field names of a record.
KeySet(rec) == {rec.items[j].k : j \in 1..Len(rec.items)}

\* C15: all records of a list extract_json returns have the same set of
\* field names; a field a source object lacks is in its record as missing,
\* not dropped.
C15_UniformFields ==
    (op = "extract_json" /\ Truthy(extracted)) =>
        \A i, j \in 1..Len(extracted.items) :
            (IsDict(extracted.items[i].v) /\ IsDict(extracted.items[j].v))
                => KeySet(extracted.items[i].v) = KeySet(extracted.items[j].v)

InSeq(x, q) == \E i \in 1..Len(q) : q[i] = x
\* Record lists of dicts with both fields in some record.
TwoFields(ds) ==
    /\ Truthy(ds)
    /\ \A r \in 1..Len(ds.items) : IsDict(Elems(ds)[r])
    /\ Len(FieldsOf(ds)) = 2
\* Every record holds f, and every value of f is a number.
AllNumbers(ds, f) ==
    /\ \A r \in 1..Len(ds.items) : f \in KeySet(Elems(ds)[r])
    /\ \A v \in ValuesOf(ds, f) : v.t = "num"
NonNumericString(v) == v.t = "str" /\ v.s \notin NumStrToks
\* A field of numbers in which one value was replaced by a non-numeric
\* string.
OneFlipped(ds, f) ==
    /\ \A r \in 1..Len(ds.items) : f \in KeySet(Elems(ds)[r])
    /\ \E r \in 1..Len(ds.items) :
        /\ NonNumericString(Cell(ds, FieldsOf(ds), r, f))
        /\ \A q \in (1..Len(ds.items)) \ {r} : Cell(ds, FieldsOf(ds), q, f).t = "num"

ExtractReadableText(res) ==
    LET d == res.extracted_data
        r == IF Truthy(d) THEN SelectRoles(d) ELSE NoRoles
    IN  IF r.categorical # <<>> /\ r.numeric # <<>>
        THEN [kind |-> "summary", x |-> r.categorical[1], y |-> r.numeric[1]]
        ELSE [kind |-> "text", x |-> "", y |-> ""]

\* chat_entry of the submit handler
ChatEntry(query, res, response, now) ==
    [query |-> query,
     text_response |-> ExtractReadableText(res),
     extracted_data |-> res.extracted_data,
     chart |-> res.chart,
     chart_type |-> "bar",
     has_data |-> HasData(res),
     raw_response |-> response.raw_text,
     timestamp |-> now]

\* json.dump and json.load of the value of extracted_data: None is null.
DumpJson(v) == IF v = None THEN <<NullTok>> ELSE Render(v, TRUE)
LoadJson(t) ==
    LET p == Loads(t) IN
    IF p.ok /\ p.v = Scalar(NullTok) THEN [ok |-> TRUE, v |-> None] ELSE p

\* Figure.to_json() and go.Figure(json.loads(chart_json)): the trace type
\* and the columns its names and values are read from.
NoJson == [type |-> "none", names |-> "", values |-> ""]
ToJson(c) == [type |-> c.kind, names |-> c.cat, values |-> c.val]
FromJson(j) == Chart(j.type, j.names, j.values)

\* A save that writes no chart.
SaveEntryNoChart(e) ==
    [query |-> e.query, text_response |-> e.text_response,
     extracted_data |-> DumpJson(e.extracted_data),
     chart_type |-> e.chart_type, has_data |-> e.has_data,
     raw_response |-> e.raw_response, timestamp |-> e.timestamp,
     chart_json |-> NoJson]
\* serializable_entry of save_history
SaveEntry(e) ==
    [query |-> e.query, text_response |-> e.text_response,
     extracted_data |-> DumpJson(e.extracted_data),
     chart_type |-> e.chart_type, has_data |-> e.has_data,
     raw_response |-> e.raw_response, timestamp |-> e.timestamp,
     chart_json |-> IF e.chart # NoChart THEN ToJson(e.chart) ELSE NoJson]
\* ChatPersistence.save_history: the file after the call
SaveHistory(h) ==
    [exists |-> TRUE, form |-> "list", entries |-> [i \in 1..Len(h) |-> SaveEntry(h[i])]]
\* save_history returns True
SaveReturn == [raised |-> FALSE, value |-> TRUE]

\* entry.get(key, default)
Get(f, k, d) == IF k \in DOMAIN f THEN f[k] ELSE d
\* An element that is no JSON object (a number, a string, null, a list): it
\* has no get.
NonObject(s) == [scalar |-> s]
IsObject(x) == "scalar" \notin DOMAIN x
\* The default '' of text_response, and a chart_json go.Figure cannot be
\* built from.
NoText == [kind |-> "none", x |-> "", y |-> ""]
BadJson == [type |-> "garbage", names |-> "", values |-> ""]

\* chat_entry of load_history
LoadEntry(f, now) ==
    [query |-> Get(f, "query", ""),
     text_response |-> Get(f, "text_response", NoText),
     extracted_data |->
        IF "extracted_data" \in DOMAIN f THEN LoadJson(f.extracted_data).v ELSE None,
     chart |-> LET j == Get(f, "chart_json", NoJson)
               IN  IF j # NoJson /\ j # BadJson THEN FromJson(j) ELSE NoChart,
     chart_type |-> Get(f, "chart_type", "bar"),
     has_data |-> Get(f, "has_data", FALSE),
     raw_response |-> Get(f, "raw_response", <<>>),
     timestamp |-> Get(f, "timestamp", now)]
\* The try block of load_history: json.load raises on a text that is no
\* JSON, the for loop raises on a value that cannot be iterated, entry.get
\* raises on an element that is no object.
ReadHistory(file, now) ==
    IF \/ file.form \in {"garbage", "num", "null"}
       \/ \E i \in 1..Len(file.entries) :
            \/ ~IsObject(file.entries[i])
            \/ /\ "extracted_data" \in DOMAIN file.entries[i]
               /\ ~LoadJson(file.entries[i].extracted_data).ok
    THEN [raised |-> TRUE, value |-> <<>>]
    ELSE [raised |-> FALSE,
          value |-> [i \in 1..Len(file.entries) |-> LoadEntry(file.entries[i], now)]]
\* A load_history with no except clause.
LoadHistoryResultUncaught(file, now) ==
    IF ~file.exists THEN [raised |-> FALSE, value |-> <<>>]
    ELSE ReadHistory(file, now)
\* ChatPersistence.load_history: [] when there is no file or reading it
\* fails.
LoadHistoryResult(file, now) ==
    IF ~file.exists THEN [raised |-> FALSE, value |-> <<>>]
    ELSE LET r == ReadHistory(file, now)
         IN  IF r.raised THEN [raised |-> FALSE, value |-> <<>>] ELSE r
LoadHistory(file, now) == LoadHistoryResult(file, now).value
\* A clear_history that removes nothing.
ClearHistoryKeepsFile(file) == [file |-> file, value |-> TRUE]
\* ChatPersistence.clear_history: the file after the call, and True
ClearHistory(file) == [file |-> NoFile, value |-> TRUE]

\* A log entry whose status does not depend on success.
LogEntryAlwaysSuccess(now, query, response, d, success) ==
    [timestamp |-> now,
     status |-> "SUCCESS",
     query |-> query, response |-> response,
     extracted_data |-> IF Truthy(d) THEN d ELSE None]
\* log_entry of QueryLogger.log_query
LogEntry(now, query, response, d, success) ==
    [timestamp |-> now,
     status |-> IF success THEN "SUCCESS" ELSE "FAILED",
     query |-> query, response |-> response,
     extracted_data |-> IF Truthy(d) THEN d ELSE None]

\* ----------------------------------------------- inputs of the dashboard
Queries == {"", "q", "r"}
ChartTypes == {"bar", "pie", "line", "scatter"}
\* An object of two strings: data no chart can be drawn from.
StatusObject == Obj(<<KV(A, Str("\"x\"")), KV(B, Str("\"y\""))>>)
\* What the gateway answers in a run of the dashboard: a failure, prose,
\* the reply of scenario A, an object of strings, the empty array.
DashReplies ==
    { Failure("HTTP Error 500"),
      Success(<<WORD>>, <<>>),
      Success(DocToks(ScenarioA, 1, TRUE), <<>>),
      Success(Render(StatusObject, TRUE), <<>>),
      Success(<<"[", "]">>, <<>>) }
\* The answers to a query: any of them to "q", prose to "r".
RepliesTo(q) == IF q = "q" THEN DashReplies ELSE {Success(<<WORD>>, <<>>)}

\* ------------------------------------------------ actions of the dashboard
DashInit ==
    /\ kind = "dash" /\ doc = <<>> /\ text = <<>> /\ data = None
    /\ reply = NoReply /\ op = "idle" /\ impl = "dev" /\ mode = ""
    /\ extracted = None /\ chart = Returned(NoChart) /\ roles = NoRoles
    /\ result = NoResult
    /\ chat_history = <<>> /\ in_session = FALSE /\ history_file = NoFile
    /\ query_log = <<>> /\ clock = 0 /\ saved = <<>> /\ runs = <<>>
    /\ returned = NoReturn

\* if 'chat_history' not in st.session_state: load_history()
SessionInit ==
    /\ kind = "dash" /\ ~in_session
    /\ in_session' = TRUE
    /\ returned' = LoadHistoryResult(history_file, clock)
    /\ chat_history' = returned'.value
    /\ op' = "load"
    /\ UNCHANGED <<kind, doc, text, data, reply, impl, mode, extracted, chart, roles, result>>
    /\ UNCHANGED <<history_file, query_log, clock, saved, runs>>

\* A page refresh: the session state is gone, the files stay.
Refresh ==
    /\ kind = "dash" /\ in_session
    /\ in_session' = FALSE
    /\ op' = "refresh"
    /\ UNCHANGED <<kind, doc, text, data, reply, impl, mode, extracted, chart, roles, result>>
    /\ UNCHANGED <<chat_history, history_file, query_log, clock, saved, runs, returned>>

\* The submit button with an empty query: an error message, nothing else.
SubmitEmpty ==
    /\ kind = "dash" /\ in_session
    /\ op' = "submit_empty"
    /\ UNCHANGED <<kind, doc, text, data, reply, impl, mode, extracted, chart, roles, result>>
    /\ UNCHANGED <<dashvars, runs>>

\* A submit that saves the history before it appends the entry.
SubmitSaveFirst ==
    /\ kind = "dash" /\ in_session /\ clock < MaxSubmits
    /\ \E q \in Queries \ {""} : \E o \in RepliesTo(q) :
        \E res \in {RunQueryDevResult(o, ExtractJsonDev(o.raw_text), "bar")} :
            /\ op' = "submit" /\ mode' = "bar" /\ reply' = o /\ result' = res
            /\ clock' = clock + 1
            /\ IF ~res.success
               THEN /\ query_log' = Append(query_log,
                                           LogEntry(clock', q, res.error, None, FALSE))
                    /\ UNCHANGED <<chat_history, history_file, saved, returned>>
               ELSE /\ chat_history' = Append(chat_history, ChatEntry(q, res, o, clock'))
                    /\ history_file' = SaveHistory(chat_history)
                    /\ saved' = chat_history'
                    /\ returned' = SaveReturn
                    /\ query_log' = Append(query_log,
                                           LogEntry(clock', q, o.raw_text,
                                                    res.extracted_data, TRUE))
    /\ UNCHANGED <<kind, doc, text, data, impl, extracted, chart, roles, in_session, runs>>
\* The submit button with a query: run_query with chart_type "bar"; a failed
\* call is logged, an answer is appended, saved and logged.
Submit ==
    /\ kind = "dash" /\ in_session /\ clock < MaxSubmits
    /\ \E q \in Queries \ {""} : \E o \in RepliesTo(q) :
        \E res \in {RunQueryDevResult(o, ExtractJsonDev(o.raw_text), "bar")} :
            /\ op' = "submit" /\ mode' = "bar" /\ reply' = o /\ result' = res
            /\ clock' = clock + 1
            /\ IF ~res.success
               THEN /\ query_log' = Append(query_log,
                                           LogEntry(clock', q, res.error, None, FALSE))
                    /\ UNCHANGED <<chat_history, history_file, saved, returned>>
               ELSE /\ chat_history' = Append(chat_history, ChatEntry(q, res, o, clock'))
                    /\ history_file' = SaveHistory(chat_history')
                    /\ saved' = chat_history'
                    /\ returned' = SaveReturn
                    /\ query_log' = Append(query_log,
                                           LogEntry(clock', q, o.raw_text,
                                                    res.extracted_data, TRUE))
    /\ UNCHANGED <<kind, doc, text, data, impl, extracted, chart, roles, in_session, runs>>

\* A clear chat that empties the log too.
ClearChatAndLog ==
    /\ kind = "dash" /\ in_session
    /\ chat_history' = <<>>
    /\ history_file' = ClearHistory(history_file).file
    /\ returned' = [raised |-> FALSE, value |-> ClearHistory(history_file).value]
    /\ saved' = <<>>
    /\ op' = "clear"
    /\ query_log' = <<>>
    /\ UNCHANGED <<kind, doc, text, data, reply, impl, mode, extracted, chart, roles, result>>
    /\ UNCHANGED <<in_session, clock, runs>>
\* The clear chat button: the history is emptied and the file removed.
ClearChat ==
    /\ kind = "dash" /\ in_session
    /\ chat_history' = <<>>
    /\ history_file' = ClearHistory(history_file).file
    /\ returned' = [raised |-> FALSE, value |-> ClearHistory(history_file).value]
    /\ saved' = <<>>
    /\ op' = "clear"
    /\ UNCHANGED <<kind, doc, text, data, reply, impl, mode, extracted, chart, roles, result>>
    /\ UNCHANGED <<in_session, query_log, clock, runs>>

\* A selector that asks the gateway again and takes the data of the new
\* answer.
SwitchChartTypeRequery ==
    /\ kind = "dash" /\ in_session
    /\ \E i \in 1..Len(chat_history), t \in ChartTypes, o \in DashReplies :
        /\ chat_history[i].has_data
        /\ chat_history[i].chart # NoChart
        /\ t # chat_history[i].chart_type
        /\ \E res \in {RunQueryDevResult(o, ExtractJsonDev(o.raw_text), t)} :
            /\ reply' = o /\ result' = res
            /\ chat_history' =
                [chat_history EXCEPT ![i].chart = res.chart, ![i].chart_type = t,
                                     ![i].extracted_data = res.extracted_data]
        /\ mode' = t
    /\ op' = "switch"
    /\ UNCHANGED <<kind, doc, text, data, impl, extracted, chart, roles>>
    /\ UNCHANGED <<in_session, history_file, query_log, clock, saved, runs, returned>>
\* The graph type selector of entry i: create_chart on the data of the
\* entry; the new chart and type are put in the session state.
SwitchChartType ==
    /\ kind = "dash" /\ in_session
    /\ \E i \in 1..Len(chat_history), t \in ChartTypes :
        /\ chat_history[i].has_data
        /\ chat_history[i].chart # NoChart
        /\ t # chat_history[i].chart_type
        /\ \E c \in {CreateChart(chat_history[i].extracted_data, t)} :
            chat_history' =
                IF c.raised THEN chat_history
                ELSE [chat_history EXCEPT ![i].chart = c.chart, ![i].chart_type = t]
        /\ mode' = t
    /\ op' = "switch"
    /\ UNCHANGED <<kind, doc, text, data, reply, impl, extracted, chart, roles, result>>
    /\ UNCHANGED <<in_session, history_file, query_log, clock, saved, runs, returned>>

DashNext ==
    \/ SessionInit
    \/ Refresh
    \/ SubmitEmpty
    \/ Submit
    \/ ClearChat
    \/ SwitchChartType

DashSpec == DashInit /\ [][DashNext]_vars

\* What a reload has to give back of an entry.
SameEntry(e, f) ==
    /\ e.query = f.query /\ e.raw_response = f.raw_response
    /\ e.extracted_data = f.extracted_data
    /\ e.chart_type = f.chart_type /\ e.timestamp = f.timestamp
    /\ (e.chart # NoChart) <=> (f.chart # NoChart)
SameHistory(h, g) ==
    Len(h) = Len(g) /\ \A i \in 1..Len(h) : SameEntry(h[i], g[i])

\* C17: load_history after save_history returns a list of the same length
\* and order whose entries have the query, raw_response, extracted_data,
\* chart_type and timestamp of the entries saved, and a chart exactly where
\* the saved entry had one.
C17_RoundTrip == op = "load" => SameHistory(saved, chat_history)
\* A history of an entry with data and a pie chart and an entry with no data
\* was saved and loaded.
C17_Witness ==
    /\ op = "load" /\ Len(saved) = 2 /\ Len(chat_history) = 2
    /\ \E i, j \in 1..2 :
        /\ Truthy(chat_history[i].extracted_data)
        /\ chat_history[i].chart # NoChart /\ chat_history[i].chart_type = "pie"
        /\ chat_history[j].extracted_data = None /\ chat_history[j].chart = NoChart

\* What a refresh has to keep of the history of the session.
SameView(h, g) ==
    /\ Len(h) = Len(g)
    /\ \A i \in 1..Len(h) :
        /\ h[i].query = g[i].query
        /\ h[i].extracted_data = g[i].extracted_data
        /\ h[i].chart_type = g[i].chart_type

\* C18: after any sequence of submits, clear chats and chart type switches,
\* the history a new session loads equals the history the session had in
\* memory before the refresh, in length, order, query, extracted_data and
\* chart_type of every entry.
C18_SurvivesRefresh ==
    [][(~in_session /\ in_session') => SameView(chat_history, chat_history')]_vars

\* Everything of an entry but its chart and chart_type.
SameButChart(e, f) ==
    /\ e.query = f.query /\ e.text_response = f.text_response
    /\ e.extracted_data = f.extracted_data /\ e.has_data = f.has_data
    /\ e.raw_response = f.raw_response /\ e.timestamp = f.timestamp

\* C21: a chart type switch of entry i asks the gateway nothing (no reply,
\* no result, no log entry, no submit counted), leaves every other entry as
\* it was, leaves the query, text_response and extracted_data of entry i as
\* they were, and the chart of entry i is afterwards either the one it was
\* or the one create_chart draws from the extracted_data of the entry with
\* the selected type.
C21_SwitchFrame ==
    [][op' = "switch" =>
        /\ reply' = reply /\ result' = result
        /\ clock' = clock /\ query_log' = query_log
        /\ Len(chat_history') = Len(chat_history)
        /\ \E i \in 1..Len(chat_history) :
            /\ \A j \in (1..Len(chat_history)) \ {i} : chat_history'[j] = chat_history[j]
            /\ SameButChart(chat_history[i], chat_history'[i])
            /\ \/ chat_history'[i] = chat_history[i]
               \/ /\ chat_history'[i].chart_type = mode'
                  /\ chat_history'[i].chart =
                        CreateChart(chat_history[i].extracted_data, mode').chart]_vars
\* The second of two entries with data was switched to a pie chart, the
\* first still has its bar chart.
C21_Witness ==
    /\ op = "switch" /\ mode = "pie" /\ Len(chat_history) = 2
    /\ chat_history[2].chart_type = "pie" /\ chat_history[2].chart.kind = "pie"
    /\ chat_history[1].chart_type = "bar" /\ chat_history[1].chart.kind = "bar"

\* C23: a submit of a query the gateway answers puts one entry with that
\* query after the entries the history had, which stay as they were, and
\* the history load_history then reads from the file has the length of the
\* history in memory and the same query at every position.
C23_SubmitAppendsAndSaves ==
    [][(op' = "submit" /\ result'.success) =>
        /\ Len(chat_history') = Len(chat_history) + 1
        /\ SubSeq(chat_history', 1, Len(chat_history)) = chat_history
        /\ chat_history'[Len(chat_history')].query = query_log'[Len(query_log')].query
        /\ chat_history'[Len(chat_history')].query # ""
        /\ LET persisted == LoadHistory(history_file', clock')
           IN  /\ Len(persisted) = Len(chat_history')
               /\ \A i \in 1..Len(persisted) : persisted[i].query = chat_history'[i].query]_vars
\* The query "r" was submitted after the query "q", both were answered, and
\* the file holds both.
C23_Witness ==
    /\ op = "submit" /\ result.success
    /\ Len(chat_history) = 2
    /\ chat_history[1].query = "q" /\ chat_history[2].query = "r"
    /\ history_file.exists /\ Len(history_file.entries) = 2
    /\ history_file.entries[1].query = "q" /\ history_file.entries[2].query = "r"

\* C24: a submit whose gateway call fails leaves the history in memory and
\* the history file as they were and adds one entry to the log, with status
\* FAILED and no extracted data; a submit of the empty query leaves the
\* history, the file and the log as they were and calls no gateway.
C24_FailedAndEmptySubmit ==
    [][/\ (op' = "submit" /\ ~reply'.success) =>
            /\ chat_history' = chat_history /\ history_file' = history_file
            /\ Len(query_log') = Len(query_log) + 1
            /\ SubSeq(query_log', 1, Len(query_log)) = query_log
            /\ query_log'[Len(query_log')].status = "FAILED"
            /\ query_log'[Len(query_log')].extracted_data = None
       /\ op' = "submit_empty" =>
            /\ chat_history' = chat_history /\ history_file' = history_file
            /\ query_log' = query_log
            /\ reply' = reply /\ result' = result /\ clock' = clock]_vars
\* After an answered submit, a submit failed: the history and the file hold
\* the one entry, the log holds two.
C24_Witness ==
    /\ op = "submit" /\ ~reply.success
    /\ Len(chat_history) = 1 /\ history_file.exists /\ Len(history_file.entries) = 1
    /\ Len(query_log) = 2
    /\ query_log[1].status = "SUCCESS" /\ query_log[2].status = "FAILED"

\* No entry of the history h or of the file is from a submit up to time c.
NoneUpTo(h, file, c) ==
    /\ \A i \in 1..Len(h) : h[i].timestamp > c
    /\ \A i \in 1..Len(file.entries) : file.entries[i].timestamp > c

\* C25: right after Clear Chat the history in memory is empty, the history
\* file does not exist, load_history would return the empty list, and
\* clear_history returned True (also when there was no file), so that no
\* entry submitted up to then is in memory or in the file; and no step of
\* the dashboard brings an entry submitted up to a time c back into the
\* history in memory or the file once they hold none, so the entries from
\* before a clear stay away for good.
C25_ClearChat ==
    /\ [](op = "clear" =>
            /\ chat_history = <<>> /\ ~history_file.exists
            /\ LoadHistory(history_file, clock) = <<>>
            /\ ~returned.raised /\ returned.value = TRUE
            /\ NoneUpTo(chat_history, history_file, clock))
    /\ [][\A c \in 0..MaxSubmits :
            (c <= clock /\ NoneUpTo(chat_history, history_file, c)) =>
                (c <= clock' /\ NoneUpTo(chat_history', history_file', c))]_vars
\* An answered submit, a clear chat, and an answered submit: the history and
\* the file hold the second entry only.
C25_Witness ==
    /\ op = "submit" /\ clock = 2 /\ Len(query_log) = 2
    /\ query_log[1].status = "SUCCESS" /\ query_log[2].status = "SUCCESS"
    /\ Len(chat_history) = 1 /\ chat_history[1].timestamp = 2
    /\ history_file.exists /\ Len(history_file.entries) = 1
    /\ history_file.entries[1].timestamp = 2

\* C26: every step of the dashboard keeps the entries of the log as a
\* prefix of the log; a submit of a query adds one entry, whose status is
\* SUCCESS exactly when the gateway call succeeded; a clear chat, a chart
\* type switch, a refresh, a reload and an empty submit leave the log as it
\* was.
C26_LogAppendOnly ==
    [][/\ Len(query_log') >= Len(query_log)
       /\ SubSeq(query_log', 1, Len(query_log)) = query_log
       /\ op' = "submit" =>
            /\ Len(query_log') = Len(query_log) + 1
            /\ query_log'[Len(query_log')].status = "SUCCESS" <=> reply'.success
            /\ query_log'[Len(query_log')].status \in {"SUCCESS", "FAILED"}
       /\ op' \in {"clear", "switch", "refresh", "load", "submit_empty"} =>
            query_log' = query_log]_vars
\* A clear chat after an answered and a failed submit: the log holds both
\* entries, the history none.
C26_Witness ==
    /\ op = "clear" /\ chat_history = <<>>
    /\ Len(query_log) = 2
    /\ {query_log[1].status, query_log[2].status} = {"SUCCESS", "FAILED"}

\* --------------------------------------- calls of the persistence layer
\* load_history and clear_history called on a history file of any content.

\* What save_history wrote of the answers of the dashboard.
SavedEntries ==
    {SaveEntry(ChatEntry("q", RunQueryDevResult(o, ExtractJsonDev(o.raw_text), "bar"), o, 1)) :
        o \in {r \in DashReplies : r.success}}
\* The elements of an array in the file: entries as saved, objects with
\* keys missing, an object whose chart_json is no figure, a number, a string.
FileItems ==
    SavedEntries \cup
    { [query |-> "q"],
      [query |-> "q", chart_json |-> BadJson],
      NonObject("5"),
      NonObject("\"x\"") }
FileOf(form, entries) == [exists |-> TRUE, form |-> form, entries |-> entries]
HistoryFiles ==
    {NoFile}
    \cup {FileOf("list", es) : es \in SeqsUpTo(FileItems, MaxSubmits)}
    \cup { FileOf("garbage", <<>>), FileOf("num", <<>>), FileOf("null", <<>>),
           FileOf("dict", <<>>), FileOf("dict", <<NonObject("\"query\"")>>),
           FileOf("str", <<>>), FileOf("str", <<NonObject("\"x\"")>>) }

PersistInit ==
    /\ kind = "persist" /\ doc = <<>> /\ text = <<>> /\ data = None
    /\ reply = NoReply /\ op = "idle" /\ impl = "" /\ mode = ""
    /\ extracted = None /\ chart = Returned(NoChart) /\ roles = NoRoles
    /\ result = NoResult
    /\ chat_history = <<>> /\ in_session = FALSE
    /\ history_file \in HistoryFiles
    /\ query_log = <<>> /\ clock = 0 /\ saved = <<>> /\ runs = <<>>
    /\ returned = NoReturn

\* chat_persistence.load_history(), on the file as it is or after a
\* clear_history: the file is opened for reading.
CallLoadHistory ==
    /\ kind = "persist" /\ op \in {"idle", "clear_history"}
    /\ op' = "load_history"
    /\ returned' = LoadHistoryResult(history_file, clock)
    /\ UNCHANGED <<kind, doc, text, data, reply, impl, mode, extracted, chart, roles, result>>
    /\ UNCHANGED <<chat_history, in_session, history_file, query_log, clock, saved, runs>>

\* chat_persistence.clear_history()
CallClearHistory ==
    /\ kind = "persist" /\ op = "idle"
    /\ op' = "clear_history"
    /\ history_file' = ClearHistory(history_file).file
    /\ returned' = [raised |-> FALSE, value |-> ClearHistory(history_file).value]
    /\ UNCHANGED <<kind, doc, text, data, reply, impl, mode, extracted, chart, roles, result>>
    /\ UNCHANGED <<chat_history, in_session, query_log, clock, saved, runs>>

PersistNext ==
    \/ CallLoadHistory
    \/ CallClearHistory

PersistSpec == PersistInit /\ [][PersistNext]_vars

\* The file holds a list of objects.
ListOfObjects(file) ==
    /\ file.exists /\ file.form = "list"
    /\ \A i \in 1..Len(file.entries) : IsObject(file.entries[i])

\* C22: a call of load_history leaves the history file as it is and does
\* not raise; it returns the empty list when the file does not exist, is no
\* JSON or holds no list of objects, and else a list of the length of the
\* stored list whose i-th entry has the query, raw_response and chart_type
\* of the i-th stored entry (the defaults where the key is missing).
C22_LoadHistory ==
    [][op' = "load_history" =>
        /\ history_file' = history_file
        /\ ~returned'.raised
        /\ ~ListOfObjects(history_file) => returned'.value = <<>>
        /\ ListOfObjects(history_file) =>
            /\ Len(returned'.value) = Len(history_file.entries)
            /\ \A i \in 1..Len(history_file.entries) :
                /\ returned'.value[i].query = Get(history_file.entries[i], "query", "")
                /\ returned'.value[i].raw_response =
                        Get(history_file.entries[i], "raw_response", <<>>)
                /\ returned'.value[i].chart_type =
                        Get(history_file.entries[i], "chart_type", "bar")]_vars
\* load_history returned the empty list for a file that holds a list of an
\* object and a number.
C22_Witness ==
    /\ op = "load_history" /\ history_file.form = "list"
    /\ Len(history_file.entries) = 2
    /\ IsObject(history_file.entries[1]) /\ ~IsObject(history_file.entries[2])
    /\ ~returned.raised /\ returned.value = <<>>

\* ================================================================== runs
\* Concurrent callers of extraction and chart selection of one module
\* (impl): every run has its own text and mode, and takes the two steps of
\* run_query, extraction and then the chart call, at its own pace.

ExtractJson(m, t) == IF m = "prod" THEN ExtractJsonProd(t) ELSE ExtractJsonDev(t)
\* if extracted_data: chart = ...(extracted_data, chart_type)
ChartFor(m, d, md) ==
    IF ~Truthy(d) THEN Returned(NoChart)
    ELSE IF m = "prod" THEN AutoGenerateChart(d, md)
    ELSE CreateChart(d, md)

NewRun(d, md) ==
    [doc |-> d, text |-> DocToks(d, 1, TRUE), mode |-> md, pc |-> "start",
     data |-> None, chart |-> Returned(NoChart)]

\* An extraction that yields its matches to the first caller only.
ExtractStepOnce(rs, p) ==
    [rs EXCEPT ![p].pc = "extracted",
               ![p].data = IF \E q \in DOMAIN rs : q # p /\ rs[q].pc # "start"
                           THEN None ELSE ExtractJson(impl, rs[p].text)]
\* extracted_data = extract_json(text): locals of the call only
ExtractStep(rs, p) ==
    [rs EXCEPT ![p].pc = "extracted", ![p].data = ExtractJson(impl, rs[p].text)]

\* A chart call that reads the data the module extracted last.
ChartStepShared(rs, p) ==
    LET others == {q \in DOMAIN rs : q # p /\ rs[q].pc = "extracted"}
        d == IF others = {} THEN rs[p].data ELSE rs[CHOOSE q \in others : TRUE].data
    IN  [rs EXCEPT ![p].pc = "done", ![p].chart = ChartFor(impl, d, rs[p].mode)]
\* chart = chart call(extracted_data, chart_type): the data of the run only
ChartStep(rs, p) ==
    [rs EXCEPT ![p].pc = "done",
               ![p].chart = ChartFor(impl, rs[p].data, rs[p].mode)]

\* The texts and modes of the runs.
RunDocs ==
    { ScenarioA,
      <<Seg("array", <<"flat", 1>>, ArrayOf("flat", 1), TRUE)>>,
      <<Seg("prose", <<"word", 0>>, None, TRUE),
        Seg("array", <<"arrobj", 2>>, ArrayOf("arrobj", 2), FALSE)>>,
      <<Seg("object", <<"flat", 0>>, FlatObj, TRUE)>>,
      <<Seg("prose", <<"word", 0>>, None, TRUE)>>,
      <<Seg("scalars", <<"rows", 0>>, Arr(<<Arr(<<Num(1), Str("\"x\"")>>)>>), FALSE)>> }
RunModes == {"auto", "pie"}
RunIds == 1..MaxRuns

RunsInit ==
    /\ kind = "runs" /\ doc = <<>> /\ text = <<>> /\ data = None
    /\ reply = NoReply /\ op = "idle" /\ mode = ""
    /\ extracted = None /\ chart = Returned(NoChart) /\ roles = NoRoles
    /\ result = NoResult
    /\ chat_history = <<>> /\ in_session = FALSE /\ history_file = NoFile
    /\ query_log = <<>> /\ clock = 0 /\ saved = <<>>
    /\ impl \in {"prod", "dev"}
    /\ runs \in [RunIds -> {NewRun(d, md) : d \in RunDocs, md \in RunModes}]
    /\ returned = NoReturn

RunExtract ==
    /\ kind = "runs"
    /\ \E p \in RunIds :
        /\ runs[p].pc = "start"
        /\ runs' = ExtractStep(runs, p)
    /\ UNCHANGED <<corevars, dashvars>>

RunChart ==
    /\ kind = "runs"
    /\ \E p \in RunIds :
        /\ runs[p].pc = "extracted"
        /\ runs' = ChartStep(runs, p)
    /\ UNCHANGED <<corevars, dashvars>>

RunsNext ==
    \/ RunExtract
    \/ RunChart

RunsSpec == RunsInit /\ [][RunsNext]_vars

AloneData(r) == ExtractJson(impl, r.text)
AloneChart(r) == ChartFor(impl, AloneData(r), r.mode)
=============================================================================
